---- MODULE Spec2Model ----
(***************************************************************************)
(* Local-similarity section of unit5/array_network_roses-exercise.ipynb:   *)
(* nearest-neighbour table, the normalized cross-correlation norm_xcorr,   *)
(* the sliding-window loop of the single-station cell and the network      *)
(* stack cell.                                                             *)
(*                                                                         *)
(* Conventions.  Python indices are 0-based; arrays are TLA+ sequences, so *)
(* Python a[j] is a[j+1] here.  Stations are numbered 1..NumStations       *)
(* (Python 0..N-1), the loop variable i likewise.  Sample positions (l,    *)
(* the entries of L, the slice bounds) keep their Python 0-based values.   *)
(*                                                                         *)
(* A float array (one row of data, one window) is a record                 *)
(* [num |-> <<integers>>, den |-> d]: element j is num[j]/den, and den = 0 *)
(* is the array 0/0 = NaN everywhere (the only division by zero the        *)
(* program performs on a row is by max|x| = 0, where every x is 0).        *)
(* A float scalar of the similarity traces is [nan, n, d]: NaN, or n/d.    *)
(***************************************************************************)
EXTENDS Integers, Sequences, FiniteSets, TLC

VARIABLES
    st,         \* the stream: one trace record per station
    distances,  \* kneighbors distances, one row of 3 per station (metres)
    ix,         \* kneighbors indices, one row of 3 per station
    i,          \* station under study (single cell) / for-loop variable
    data,       \* the 3 normalised rows: station ix[i,0], ix[i,1], ix[i,2]
    data_l,     \* the window slice data[:, l:l+nsamp_win] of the last iteration
    l,          \* window start (sample index)
    C,          \* similarity trace of the current station
    L,          \* window centres of the current station
    C_stack,    \* list of traces, then (after the sum) the network trace
    C_stack2D,  \* copy of the 2-D stack
    pc,         \* position in the notebook
    xa, xb, xlag, xcorr, xres, xpc   \* one call of norm_xcorr on free inputs

vars == <<st, distances, ix, i, data, data_l, l, C, L, C_stack, C_stack2D, pc,
          xa, xb, xlag, xcorr, xres, xpc>>

pvars == <<st, distances, ix, i, data, data_l, l, C, L, C_stack, C_stack2D, pc>>
xvars == <<xa, xb, xlag, xcorr, xres, xpc>>

----------------------------------------------------------------------------
(* Bounds of the model *)

NumStations == 3      \* len(st)
MaxSamp == 12         \* longest record, in samples
MaxLen == 4           \* longest input of the norm_xcorr call specification
Resolution == 64      \* a float in [-1, 1] is kept to 1/Resolution

MaxTrace == MaxSamp + 2   \* cap on len(C) for a loop that does not advance
MaxLagX == 2 * MaxLen     \* largest max_lag of the norm_xcorr call specification

Stations == 1..NumStations

----------------------------------------------------------------------------
(* Arithmetic helpers *)

RECURSIVE SumTo(_, _)
SumTo(s, k) == IF k = 0 THEN 0 ELSE s[k] + SumTo(s, k - 1)

Sum(s) == SumTo(s, Len(s))

Abs(x) == IF x < 0 THEN -x ELSE x

SetMax(S) == CHOOSE x \in S : \A y \in S : y <= x

Min2(x, y) == IF x < y THEN x ELSE y
Max2(x, y) == IF x < y THEN y ELSE x

\* int(x) of a non-negative quotient p/q
IntDiv(p, q) == p \div q

----------------------------------------------------------------------------
(* Python slicing s[start:stop] of a sequence of length n: the 0-based     *)
(* indices selected.  A negative bound counts from the end; bounds are     *)
(* clamped to [0, n].                                                      *)

PyBound(n, b) == IF b < 0 THEN Max2(n + b, 0) ELSE Min2(b, n)

PySliceIdx(n, start, stop) ==
    LET lo == PyBound(n, start)
        hi == PyBound(n, stop)
    IN  IF lo < hi THEN [k \in 1..(hi - lo) |-> lo + k - 1] ELSE <<>>

PySlice(s, start, stop) ==
    LET idx == PySliceIdx(Len(s), start, stop)
    IN  [k \in 1..Len(idx) |-> s[idx[k] + 1]]

----------------------------------------------------------------------------
(* norm_xcorr(a, b, max_lag).                                              *)
(*                                                                         *)
(* With n = len(a) = len(b), A[j] = n*a[j] - sum(a) = n*(a[j] - mean(a))   *)
(* and SA = sum(A[j]^2): std(a) = sqrt(SA / n^3), so                       *)
(*   (a - mean(a)) / (std(a) * n) = A / sqrt(n * SA)                       *)
(*   (b - mean(b)) /  std(b)      = B * sqrt(n) / sqrt(SB)                 *)
(* and np.correlate(., ., 'full')[m] = R[m] / sqrt(SA * SB) with           *)
(*   R[m] = sum_j A[j + m - (n-1)] * B[j]          (m = 0 .. 2n-2).        *)
(* std = 0 divides 0 by 0: the operand, and with it every entry of the     *)
(* correlation, is NaN.  The positive scale 1/den of an operand cancels.   *)

Centered(s) ==
    LET n     == Len(s)
        total == Sum(s)
    IN  [j \in 1..n |-> n * s[j] - total]

SumSq(s) == Sum([j \in 1..Len(s) |-> s[j] * s[j]])

\* R[m], m the 0-based index into the 'full' correlation
CorrAt(A, B, m) ==
    LET n == Len(A)
    IN  Sum([j \in 1..n |->
              IF (j + m - (n - 1)) \in 1..n THEN A[j + m - (n - 1)] * B[j] ELSE 0])

\* operand is NaN after normalisation
Degenerate(a) == a.den = 0 \/ SumSq(Centered(a.num)) = 0

\* np.correlate(a, b, 'full') after the two normalisations
FullXcorr(a, b) ==
    LET n == Len(a.num)
        A == Centered(a.num)
        B == Centered(b.num)
    IN  [nan   |-> Degenerate(a) \/ Degenerate(b),
         num   |-> [m \in 1..(2 * n - 1) |-> CorrAt(A, B, m - 1)],
         densq |-> SumSq(A) * SumSq(B)]

\* i = len(a)-1 ; the 0-based indices of xcorr[i-max_lag:i+max_lag]
LagSliceIdx(n, max_lag) ==
    PySliceIdx(2 * n - 1, (n - 1) - max_lag, (n - 1) + max_lag)

\* xcorr = xcorr[i-max_lag:i+max_lag]
SlicedXcorr(a, b, max_lag) ==
    LET full == FullXcorr(a, b)
        idx  == LagSliceIdx(Len(a.num), max_lag)
    IN  [nan   |-> full.nan,
         num   |-> [k \in 1..Len(idx) |-> full.num[idx[k] + 1]],
         densq |-> full.densq]

\* np.max(xcorr): ValueError on an empty array, NaN if any entry is NaN.
\* A value is num / sqrt(densq).
NpMax(x) ==
    IF x.num = <<>> THEN [kind |-> "ValueError", num |-> 0, densq |-> 1]
    ELSE IF x.nan THEN [kind |-> "nan", num |-> 0, densq |-> 1]
    ELSE [kind  |-> "value",
          num   |-> SetMax({x.num[k] : k \in 1..Len(x.num)}),
          densq |-> x.densq]

norm_xcorr(a, b, max_lag) == NpMax(SlicedXcorr(a, b, max_lag))

----------------------------------------------------------------------------
(* Floats of the similarity traces: NaN, or the rational n/d in lowest     *)
(* terms with d > 0.                                                       *)

RECURSIVE GCD(_, _)
GCD(x, y) == IF y = 0 THEN x ELSE GCD(y, x % y)

Reduce(n, d) ==
    LET g == GCD(Abs(n), d)
    IN  [nan |-> FALSE, n |-> n \div g, d |-> d \div g]

NaN == [nan |-> TRUE, n |-> 0, d |-> 1]

FAdd(x, y) ==
    IF x.nan \/ y.nan THEN NaN
    ELSE LET m == (x.d * y.d) \div GCD(x.d, y.d)
         IN  Reduce(x.n * (m \div x.d) + y.n * (m \div y.d), m)

\* x / k for an integer k > 0
FDivInt(x, k) == IF x.nan THEN NaN ELSE Reduce(x.n, x.d * k)

FMulInt(x, k) == IF x.nan THEN NaN ELSE Reduce(x.n * k, x.d)

RECURSIVE FSum(_)
FSum(s) == IF s = <<>> THEN Reduce(0, 1) ELSE FAdd(Head(s), FSum(Tail(s)))

\* floor(sqrt(v)), by Newton's iteration
RECURSIVE Newton(_, _)
Newton(v, r) ==
    LET r2 == (r + v \div r) \div 2
    IN  IF r2 >= r THEN r ELSE Newton(v, r2)

ISqrt(v) == IF v = 0 THEN 0 ELSE Newton(v, v)

\* The value num/sqrt(densq) that norm_xcorr returns, |num| <= sqrt(densq),
\* as a float: a multiple of 1/Resolution, exactly 1 when num = sqrt(densq).
Quant(num, densq) ==
    LET q == (Resolution * Abs(num)) \div ISqrt(densq)
    IN  IF num < 0 THEN -q ELSE q

Float(c) ==
    IF c.kind = "nan" THEN NaN ELSE Reduce(Quant(c.num, c.densq), Resolution)

----------------------------------------------------------------------------
(* The stream st and the station coordinates *)

NNeighbors == 3     \* n_neighbors=3, and the 3 rows of data
VMin == 3500        \* v_min = 3.5 km/s, in m/s
Delt == 1           \* delt = 1. (seconds)

\* st[j].data for a record of n samples
Waveform(kind, n) ==
    [j \in 1..n |->
        CASE kind = "zero"  -> 0
          [] kind = "pulse" -> IF j = 2 THEN 3 ELSE 0
          [] kind = "saw"   -> j % 3
          [] kind = "quad"  -> (j * j) % 5]

\* projected coordinates (metres) and waveform of a station
Profiles ==
    { [x |-> 0,    y |-> 0, kind |-> "saw"],
      [x |-> 0,    y |-> 0, kind |-> "pulse"],
      [x |-> 1750, y |-> 0, kind |-> "quad"] }

ProfileSeq == << [x |-> 0,    y |-> 0, kind |-> "saw"],
                 [x |-> 1750, y |-> 0, kind |-> "quad"],
                 [x |-> 0,    y |-> 0, kind |-> "zero"] >>

DefaultProfile(s) == ProfileSeq[((s - 1) % Len(ProfileSeq)) + 1]

Rates == {2, 4, 9}                               \* sampling_rate (Hz)
NptsSet == {0, MaxSamp \div 2, MaxSamp}          \* len(st[0].data)

Trace(prof, rate, start, npts) ==
    [data          |-> Waveform(prof.kind, npts),
     sampling_rate |-> rate,
     starttime     |-> start,
     x             |-> prof.x,
     y             |-> prof.y]

\* X[s,:] = (E, N)
X == [s \in Stations |-> <<st[s].x, st[s].y>>]

\* the three attributes the traces are said to share
Mismatch ==
    \E s, t \in Stations :
        \/ Len(st[s].data) # Len(st[t].data)
        \/ st[s].sampling_rate # st[t].sampling_rate
        \/ st[s].starttime # st[t].starttime

nsamp == Len(st[1].data)

nsamp_win == st[1].sampling_rate * Delt

----------------------------------------------------------------------------
(* NearestNeighbors(n_neighbors=3, metric='euclidean').fit(X).kneighbors(X) *)

\* squared Euclidean distance
Dist2(p, q) ==
    (p[1] - q[1]) * (p[1] - q[1]) + (p[2] - q[2]) * (p[2] - q[2])

\* Euclidean distance (the sites are chosen so that it is a whole number)
Dist(p, q) == ISqrt(Dist2(p, q))

\* Position (1 = nearest) of station t in the answer for query point s:
\* by distance (compared through its square), and among equal distances by
\* rank.  The order among equal distances (the query point itself included,
\* when another station has its coordinates) is the library's choice; rank,
\* a permutation of the stations, is that choice.
KnnPosition(s, t, rank) ==
    1 + Cardinality({o \in Stations :
            \/ Dist2(X[s], X[o]) < Dist2(X[s], X[t])
            \/ Dist2(X[s], X[o]) = Dist2(X[s], X[t]) /\ rank[o] < rank[t]})

\* ix[s,:]
KnnRow(s, rank) ==
    [p \in 1..NNeighbors |->
        CHOOSE t \in Stations : KnnPosition(s, t, rank) = p]

Rankings == {r \in [Stations -> Stations] : \A t \in Stations : \E o \in Stations : r[o] = t}

RowDistances(s, r) == [p \in 1..NNeighbors |-> Dist(X[s], X[r[p]])]

\* np.max(distances)
MaxDistance ==
    SetMax({distances[s][p] : s \in Stations, p \in 1..NNeighbors})

\* i_max = int((np.max(distances)/1000./v_min) / st[0].stats.delta),
\* with delta = 1/sampling_rate
i_max == IntDiv(MaxDistance * st[1].sampling_rate, VMin)

----------------------------------------------------------------------------
(* The notebook cells *)

XIdle ==
    /\ xa = <<>> /\ xb = <<>> /\ xlag = 0 /\ xcorr = <<>>
    /\ xres = [kind |-> "none", num |-> 0, densq |-> 1]
    /\ xpc = "idle"

\* st = read('WAVEFIELDS.pickle'): either every station has its own profile
\* and all traces share rate, start time and length, or the stations have
\* the default profiles and one trace differs from the others in one of
\* the three.
Init ==
    /\ \E rate \in Rates, npts \in NptsSet :
          \/ \E prof \in [Stations -> Profiles] :
                st = [s \in Stations |-> Trace(prof[s], rate, 0, npts)]
          \/ \E dev \in Stations :
                \/ \E r2 \in Rates \ {rate} :
                      st = [s \in Stations |->
                              Trace(DefaultProfile(s),
                                    IF s = dev THEN r2 ELSE rate, 0, npts)]
                \/ st = [s \in Stations |->
                           Trace(DefaultProfile(s), rate,
                                 IF s = dev THEN 1 ELSE 0, npts)]
                \/ \E n2 \in {1, npts + 1} \ {npts} :
                      st = [s \in Stations |->
                              Trace(DefaultProfile(s), rate, 0,
                                    IF s = dev THEN n2 ELSE npts)]
    /\ distances = <<>> /\ ix = <<>> /\ i = 0
    /\ data = <<>> /\ data_l = <<>> /\ l = 0 /\ C = <<>> /\ L = <<>>
    /\ C_stack = <<>> /\ C_stack2D = <<>>
    /\ pc = "kneighbors"
    /\ XIdle

\* distances, ix = nbrs.kneighbors(X) ; i = 127 (any station)
Kneighbors ==
    /\ pc = "kneighbors"
    /\ \E rank \in Rankings :
          /\ ix' = [s \in Stations |-> KnnRow(s, rank)]
          /\ distances' = [s \in Stations |-> RowDistances(s, ix'[s])]
    /\ \E s \in Stations : i' = s
    /\ pc' = "single_extract"
    /\ UNCHANGED <<st, data, data_l, l, C, L, C_stack, C_stack2D>>
    /\ UNCHANGED xvars

\* st[j].data/np.max(np.abs(st[j].data)) raises on an empty trace, and the
\* assignment to data[l,:] raises unless the trace has nsamp samples or one
\* sample (which is broadcast over the row)
RowFails(j) == Len(st[j].data) = 0 \/ Len(st[j].data) \notin {nsamp, 1}

NormalisedRow(j) ==
    LET d == st[j].data
        m == SetMax({Abs(d[k]) : k \in 1..Len(d)})
    IN  [num |-> IF Len(d) = nsamp THEN d ELSE [k \in 1..nsamp |-> d[1]],
         den |-> m]

\* data = np.zeros((3, nsamp)) ; for j in ix[i,:]: data[l,:] = ... ; then
\* C = []; L = []; l = 0
Extract(next_pc) ==
    IF \E r \in 1..NNeighbors : RowFails(ix[i][r])
    THEN /\ pc' = "ValueError"
         /\ UNCHANGED <<data, data_l, l, C, L>>
    ELSE /\ data' = [r \in 1..NNeighbors |-> NormalisedRow(ix[i][r])]
         /\ l' = 0 /\ C' = <<>> /\ L' = <<>>
         /\ pc' = next_pc
         /\ UNCHANGED data_l

\* while l < nsamp: also a trailing position short of a full window
LoopCondPartial == l < nsamp

\* while l < nsamp-nsamp_win
LoopCond == l < nsamp - nsamp_win

\* l = l + int(nsamp_win/4)
WinStep == IntDiv(nsamp_win, 4)

\* L.append(l + int(nsamp_win/2))
Center(lw) == lw + IntDiv(nsamp_win, 2)

\* data_l = data[:,l:l+nsamp_win]
WindowSlice ==
    [r \in 1..NNeighbors |->
        [num |-> PySlice(data[r].num, l, l + nsamp_win), den |-> data[r].den]]

\* one iteration of the while loop
WindowBody ==
    \E w \in {WindowSlice} :
    \E c1 \in {norm_xcorr(w[1], w[2], i_max)} :
    \E c2 \in {norm_xcorr(w[1], w[3], i_max)} :
        /\ data_l' = w
        /\ IF c1.kind = "ValueError" \/ c2.kind = "ValueError"
           THEN /\ pc' = "ValueError"
                /\ UNCHANGED <<l, C, L>>
           ELSE /\ C' = Append(C, FDivInt(FAdd(Float(c1), Float(c2)), 2))
                /\ L' = Append(L, Center(l))
                /\ l' = l + WinStep
                /\ UNCHANGED pc

\* single-station cell: the rows of station i and its neighbours
SingleExtract ==
    /\ pc = "single_extract"
    /\ Extract("single_loop")
    /\ UNCHANGED <<st, distances, ix, i, C_stack, C_stack2D>>
    /\ UNCHANGED xvars

SingleWindow ==
    /\ pc = "single_loop"
    /\ LoopCond
    /\ Len(C) < MaxTrace
    /\ WindowBody
    /\ UNCHANGED <<st, distances, ix, i, data, C_stack, C_stack2D>>
    /\ UNCHANGED xvars

\* the loop ends; plt.plot(t[L], C)
SinglePlot ==
    /\ pc = "single_loop"
    /\ ~LoopCond
    /\ pc' = "single_done"
    /\ UNCHANGED <<st, distances, ix, i, data, data_l, l, C, L, C_stack, C_stack2D>>
    /\ UNCHANGED xvars

\* C_stack = [] ; for i in range(0, ix.shape[0])
StackBegin ==
    /\ pc = "single_done"
    /\ C_stack' = <<>>
    /\ i' = 1
    /\ pc' = "stack_extract"
    /\ UNCHANGED <<st, distances, ix, data, data_l, l, C, L, C_stack2D>>
    /\ UNCHANGED xvars

StackExtract ==
    /\ pc = "stack_extract"
    /\ Extract("stack_loop")
    /\ UNCHANGED <<st, distances, ix, i, C_stack, C_stack2D>>
    /\ UNCHANGED xvars

StackWindow ==
    /\ pc = "stack_loop"
    /\ LoopCond
    /\ Len(C) < MaxTrace
    /\ WindowBody
    /\ UNCHANGED <<st, distances, ix, i, data, C_stack, C_stack2D>>
    /\ UNCHANGED xvars

\* C_stack.append(C), and the next station
StackAppend ==
    /\ pc = "stack_loop"
    /\ ~LoopCond
    /\ C_stack' = Append(C_stack, C)
    /\ IF i < NumStations
       THEN i' = i + 1 /\ pc' = "stack_extract"
       ELSE i' = i /\ pc' = "stack_sum"
    /\ UNCHANGED <<st, distances, ix, data, data_l, l, C, L, C_stack2D>>
    /\ UNCHANGED xvars

\* the sum divided by the number of neighbours instead of the number of stations
StackMeanOverNeighbours(rows) ==
    [w \in 1..Len(rows[1]) |->
        FDivInt(FSum([s \in 1..Len(rows) |-> rows[s][w]]), NNeighbors - 1)]

\* C_stack.sum(axis=0)/ix.shape[0] of the 2-D array of the traces
StackMean(rows) ==
    [w \in 1..Len(rows[1]) |->
        FDivInt(FSum([s \in 1..Len(rows) |-> rows[s][w]]), Len(ix))]

\* C_stack = np.array(C_stack) ; C_stack2D = C_stack.copy() ;
\* C_stack = C_stack.sum(axis=0)/ix.shape[0]
StackSum ==
    /\ pc = "stack_sum"
    /\ C_stack2D' = C_stack
    /\ C_stack' = StackMean(C_stack)
    /\ pc' = "done"
    /\ UNCHANGED <<st, distances, ix, i, data, data_l, l, C, L>>
    /\ UNCHANGED xvars

Next ==
    \/ Kneighbors
    \/ SingleExtract
    \/ SingleWindow
    \/ SinglePlot
    \/ StackBegin
    \/ StackExtract
    \/ StackWindow
    \/ StackAppend
    \/ StackSum

Spec == Init /\ [][Next]_vars

----------------------------------------------------------------------------
(* One call of norm_xcorr on free inputs *)

Samples == 0..2

SeqsOfLen(n) == [1..n -> Samples]

Arr(s) == [num |-> s, den |-> 1]

XInitProgram ==
    /\ st = <<>> /\ distances = <<>> /\ ix = <<>> /\ i = 0
    /\ data = <<>> /\ data_l = <<>> /\ l = 0 /\ C = <<>> /\ L = <<>>
    /\ C_stack = <<>> /\ C_stack2D = <<>> /\ pc = "idle"

XInit ==
    /\ \E n \in 1..MaxLen :
          /\ xa \in SeqsOfLen(n)
          /\ xb \in SeqsOfLen(n)
    /\ xlag \in 0..MaxLagX
    /\ xcorr = <<>>
    /\ xres = [kind |-> "none", num |-> 0, densq |-> 1]
    /\ xpc = "call"
    /\ XInitProgram

XCall ==
    /\ xpc = "call"
    /\ xcorr' = SlicedXcorr(Arr(xa), Arr(xb), xlag).num
    /\ xres' = norm_xcorr(Arr(xa), Arr(xb), xlag)
    /\ xpc' = "returned"
    /\ UNCHANGED <<xa, xb, xlag>>
    /\ UNCHANGED pvars

XNext == XCall

XSpec == XInit /\ [][XNext]_vars

----------------------------------------------------------------------------
(* Properties of the notebook cells (specification Spec) *)

InLoop == pc \in {"single_loop", "stack_loop"}

\* the completed traces held by the program
DoneTraces ==
    (IF pc = "single_done" THEN {C} ELSE {})
    \cup (IF pc = "done"
          THEN {C_stack2D[s] : s \in 1..Len(C_stack2D)}
          ELSE {C_stack[s] : s \in 1..Len(C_stack)})

\* C1: with num_samples >= window_length and a window step >= 1, a
\* completed similarity trace has floor((num_samples - window_length) /
\* window_step) + 1 entries, also when the difference is an exact multiple
\* of the step.
C1_TraceLength ==
    (~Mismatch /\ nsamp >= nsamp_win /\ WinStep >= 1) =>
        \A tr \in DoneTraces :
            Len(tr) = ((nsamp - nsamp_win) \div WinStep) + 1

\* C4: a silent (zero-variance) window never leaves a NaN in the trace C
\* of a station nor in the network stack C_stack.
C4_NoNaN ==
    ~Mismatch =>
        /\ \A k \in 1..Len(C) : ~C[k].nan
        /\ pc = "done" => \A w \in 1..Len(C_stack) : ~C_stack[w].nan

\* C5: the stack cell ends with one trace per station, all of one length
\* and with the window centres L, and C_stack has that length and is, entry
\* by entry, the arithmetic mean of the traces of all the stations.
C5_StackIsMean ==
    /\ pc \in {"stack_extract", "stack_sum", "done"} =>
          \A tr \in DoneTraces :
              /\ Len(tr) = Len(L)
              /\ L = [k \in 1..Len(tr) |-> Center((k - 1) * WinStep)]
    /\ pc = "done" =>
          /\ Len(C_stack2D) = NumStations
          /\ \A s \in Stations : Len(C_stack2D[s]) = Len(C_stack)
          /\ \A w \in 1..Len(C_stack) :
                FMulInt(C_stack[w], NumStations)
                    = FSum([s \in Stations |-> C_stack2D[s][w]])

\* C5 witness: a finished stack of two windows or more in which the
\* stations' similarities differ and their mean is a non-zero number
C5_Witness ==
    /\ ~Mismatch
    /\ pc = "done"
    /\ Len(C_stack) >= 2
    /\ \E w \in 1..Len(C_stack) :
          /\ ~C_stack[w].nan
          /\ C_stack[w].n # 0
          /\ \E s, t \in Stations : C_stack2D[s][w] # C_stack2D[t][w]

\* C6: when a trace differs from the others in sample count, sample rate
\* or start time, the computation fails: it records no similarity and does
\* not run to its end.
C6_MismatchFails ==
    Mismatch => (C = <<>> /\ pc # "done")

\* C7: every window the loop processes lies inside the record, 0 <= l and
\* l + nsamp_win <= nsamp, and its slice holds nsamp_win samples per row; a
\* trailing position with fewer samples left is not processed.
C7_WindowInsideRecord ==
    /\ (InLoop /\ LoopCond) => (0 <= l /\ l + nsamp_win <= nsamp)
    /\ data_l # <<>> =>
          \A r \in 1..NNeighbors : Len(data_l[r].num) = nsamp_win

\* C7 witness: the loop has processed two full windows or more and has
\* stopped in front of a trailing position with too few samples left
C7_Witness ==
    /\ ~Mismatch
    /\ pc = "single_done"
    /\ Len(C) >= 2
    /\ \A r \in 1..NNeighbors : Len(data_l[r].num) = nsamp_win
    /\ l < nsamp
    /\ l + nsamp_win > nsamp

\* C8: for a window length of one sample or more the window step is
\* strictly positive and the loop ends: every iteration that has run moved
\* l forward by a step >= 1, and a trace never grows beyond the nsamp
\* iterations that a loop advancing from 0 to nsamp can make.
C8_LoopTerminates ==
    (~Mismatch /\ nsamp_win >= 1) =>
        /\ C # <<>> => (WinStep >= 1 /\ l = Len(C) * WinStep)
        /\ Len(C) <= nsamp

\* C9: when a similarity of station i is recorded, the reference row
\* data[0] is station i's own trace, and the two other rows are its nearest
\* other stations, neither of them station i.
C9_ReferenceIsSelf ==
    (~Mismatch /\ InLoop /\ C # <<>>) =>
        /\ ix[i][1] = i
        /\ data[1] = NormalisedRow(i)
        /\ \A p \in 2..NNeighbors :
              /\ ix[i][p] # i
              /\ \A o \in Stations \ ({i} \cup {ix[i][q] : q \in 1..NNeighbors}) :
                    Dist(X[i], X[o]) >= Dist(X[i], X[ix[i][p]])

\* C10: the window centres L are strictly increasing, consecutive centres
\* differ by the window step, len(L) = len(C), and every centre is a valid
\* sample index inside the window it was recorded for (the last window
\* started at l - step).
C10_Centers ==
    ~Mismatch =>
        /\ Len(L) = Len(C)
        /\ \A k \in 1..(Len(L) - 1) :
              L[k] < L[k + 1] /\ L[k + 1] - L[k] = WinStep
        /\ \A k \in 1..Len(L) : 0 <= L[k] /\ L[k] < nsamp
        /\ L # <<>> =>
              /\ l - WinStep <= L[Len(L)]
              /\ L[Len(L)] < (l - WinStep) + nsamp_win

----------------------------------------------------------------------------
(* Properties of norm_xcorr (specification XSpec) *)

NonConstant(s) == \E j, k \in 1..Len(s) : s[j] # s[k]

\* the value num/sqrt(densq) is 1.0
IsOne(r) == r.kind = "value" /\ r.num > 0 /\ r.num * r.num = r.densq

\* C2: norm_xcorr(a, a, max_lag) is 1.0 for every non-constant a and every
\* max_lag >= 0, max_lag = 0 and max_lag >= len(a) included.
C2_SelfCorrelationIsOne ==
    (xpc = "returned" /\ xa = xb /\ NonConstant(xa)) => IsOne(xres)

\* C3: for 0 <= L <= n-1 the maximum is taken over the lags -L .. +L, both
\* ends included: 2L+1 entries of the full correlation around index n-1.
C3_ClosedLagInterval ==
    (xpc = "returned" /\ xlag <= Len(xa) - 1) =>
        LET n    == Len(xa)
            idx  == LagSliceIdx(n, xlag)
            full == FullXcorr(Arr(xa), Arr(xb))
        IN  /\ Len(xcorr) = 2 * xlag + 1
            /\ {idx[k] - (n - 1) : k \in 1..Len(idx)} = (-xlag)..xlag
            /\ xres.kind = "value" =>
                  xres.num = SetMax({full.num[n + d] : d \in (-xlag)..xlag})

====
